---- MODULE Spec2Model ----
(***************************************************************************)
(* Model of plugin/to_task.py (class AnnotationToTask): the dispatch of a  *)
(* conversion request by schema, the staging of the primary file in the    *)
(* temp workspace, the calls of the external decoders and of the           *)
(* DM v2 -> v1 converter, the cleanup of the workspace, and the key        *)
(* renumbering of DM schema v1 records.                                    *)
(*                                                                         *)
(* Strings that the code takes apart (dictionary keys, URL paths, the      *)
(* class-name parameter) are sequences of one-character strings.           *)
(***************************************************************************)
EXTENDS Integers, Sequences, FiniteSets, TLC

(***************************************************************************)
(* Bounds of the model.                                                    *)
(***************************************************************************)
\* keys per section mapping
MaxKeys == 3

(***************************************************************************)
(* Characters and strings.                                                 *)
(***************************************************************************)
DigitChars == <<"0", "1", "2", "3", "4", "5", "6", "7", "8", "9">>

Digits == {DigitChars[i] : i \in 1..10}

\* str(i) of a non-negative integer, as the f-string of line 317 formats it
RECURSIVE ToStr(_)
ToStr(i) == IF i < 10 THEN <<DigitChars[i + 1]>>
            ELSE ToStr(i \div 10) \o <<DigitChars[(i % 10) + 1]>>

\* positions where the pattern _\d+$ matches: an underscore followed by one
\* or more digits up to the end of the key
SuffixStarts(key) ==
    {p \in 1..Len(key) :
        /\ key[p] = "_"
        /\ p < Len(key)
        /\ \A q \in (p + 1)..Len(key) : key[q] \in Digits}

\* re.search(r'_\d+$', key)
HasNumberSuffix(key) == SuffixStarts(key) # {}

\* a mutant of line 311: the suffix is not cut off
BaseKeyUnstripped(key) == key

\* re.sub(r'_\d+$', '', key): the one match, if any, is cut off
BaseKey(key) ==
    IF SuffixStarts(key) = {} THEN key
    ELSE LET p == CHOOSE q \in SuffixStarts(key) : TRUE
         IN  SubSeq(key, 1, p - 1)

\* a mutant of line 316: enumerate(original_keys) counts from 0
NewKeyFromZero(base_key, i) == base_key \o <<"_">> \o ToStr(i - 1)

\* a mutant of line 317: the suffix of the base is cut off once more
NewKeyStrippedAgain(base_key, i) == BaseKey(base_key) \o <<"_">> \o ToStr(i)

\* line 317: f'{base_key}_{i}'
NewKey(base_key, i) == base_key \o <<"_">> \o ToStr(i)

(***************************************************************************)
(* Python dictionaries: a sequence of <<key, value>> pairs with pairwise   *)
(* different keys, in insertion order.                                     *)
(***************************************************************************)
DictKeys(d) == [k \in 1..Len(d) |-> d[k][1]]

DictValues(d) == [k \in 1..Len(d) |-> d[k][2]]

KeySet(d) == {d[k][1] : k \in 1..Len(d)}

\* d[key] = value: an existing key keeps its position, a new key is appended
DictSet(d, key, value) ==
    IF key \in KeySet(d)
    THEN [k \in 1..Len(d) |-> IF d[k][1] = key THEN <<key, value>> ELSE d[k]]
    ELSE Append(d, <<key, value>>)

\* d[key]
DictGet(d, key) == LET k == CHOOSE j \in 1..Len(d) : d[j][1] = key IN d[k][2]

(***************************************************************************)
(* _normalize_dm_schema_v1_keys_with_incremental_numbers                   *)
(***************************************************************************)
\* lines 307-312: base_key_groups, a defaultdict(list) filled in key order;
\* the groups are kept in the order their base key was first seen
RECURSIVE GroupKeys(_, _)
GroupKeys(nested_dict, n) ==
    IF n = 0 THEN << >>
    ELSE LET groups == GroupKeys(nested_dict, n - 1)
             key == nested_dict[n][1]
             base_key == BaseKey(key)
         IN  IF base_key \in KeySet(groups)
             THEN DictSet(groups, base_key, Append(DictGet(groups, base_key), key))
             ELSE DictSet(groups, base_key, <<key>>)

base_key_groups(nested_dict) == GroupKeys(nested_dict, Len(nested_dict))

\* lines 316-318: the inner loop over one group
RECURSIVE AssignGroup(_, _, _, _, _)
AssignGroup(normalized_dict, nested_dict, base_key, original_keys, i) ==
    IF i > Len(original_keys) THEN normalized_dict
    ELSE AssignGroup(
            DictSet(normalized_dict, NewKey(base_key, i),
                    DictGet(nested_dict, original_keys[i])),
            nested_dict, base_key, original_keys, i + 1)

\* lines 315-318: the outer loop over the groups
RECURSIVE AssignGroups(_, _, _, _)
AssignGroups(normalized_dict, nested_dict, groups, g) ==
    IF g > Len(groups) THEN normalized_dict
    ELSE AssignGroups(
            AssignGroup(normalized_dict, nested_dict, groups[g][1], groups[g][2], 1),
            nested_dict, groups, g + 1)

\* lines 288-320, for an argument that is a dict
normalize_keys_with_incremental_numbers(nested_dict) ==
    AssignGroups(<< >>, nested_dict, base_key_groups(nested_dict), 1)

(***************************************************************************)
(* Records (the top-level dict of a DM schema v1 document).  A record maps *)
(* every field name to a value: t = "absent" when the record has no such   *)
(* key, t = "dict" when the value is a mapping (d holds its items), and    *)
(* t = "other" for any value that is not a dict (d holds the items of a    *)
(* JSON list of pairs, which the code must not touch).                     *)
(***************************************************************************)
\* line 274
target_keys == {"extra", "relations", "annotations", "annotationsData", "annotationGroups"}

\* a top-level field that is not one of the five sections
OtherFields == {"meta"}

Fields == target_keys \cup OtherFields

Absent == [t |-> "absent", d |-> << >>]

\* line 280: main_key in normalized_data and isinstance(normalized_data[main_key], dict)
IsMappingSection(record, main_key) ==
    /\ record[main_key].t # "absent"
    /\ record[main_key].t = "dict"

\* lines 279-284: the loop over target_keys, on the copy
NormalizeSections(record) ==
    [f \in Fields |->
        IF f \in target_keys /\ IsMappingSection(record, f)
        THEN [t |-> "dict", d |-> normalize_keys_with_incremental_numbers(record[f].d)]
        ELSE record[f]]

(***************************************************************************)
(* Objects.  heap is the sequence of the record objects that exist; a      *)
(* reference is an index into it.                                          *)
(***************************************************************************)
\* a mutant of line 277: no copy, the result is the caller's object
AliasCopy(h, ref) == [heap |-> h, ref |-> ref]

\* line 277: copy.deepcopy(data) makes a new object with equal contents
DeepCopy(h, ref) == [heap |-> Append(h, h[ref]), ref |-> Len(h) + 1]

\* lines 260-286: _normalize_dm_schema_v1_nested_dictionary_keys(data), as
\* the heap it leaves and the reference it returns
normalize_nested_dictionary_keys(h, data) ==
    LET c == DeepCopy(h, data)
    IN  [heap |-> [c.heap EXCEPT ![c.ref] = NormalizeSections(c.heap[c.ref])],
         ref |-> c.ref]

(***************************************************************************)
(* compare_normalized_dm_schema_v1_before_after: the key_mappings of one   *)
(* section, lines 397-405 (zip stops at the shorter list).                 *)
(***************************************************************************)
Min(a, b) == IF a < b THEN a ELSE b

key_mappings(original_section, normalized_section) ==
    [k \in 1..Min(Len(original_section), Len(normalized_section)) |->
        [original |-> original_section[k][1],
         normalized |-> normalized_section[k][1],
         changed |-> original_section[k][1] # normalized_section[k][1]]]

\* line 386: main_key in original_data and main_key in normalized_data
ComparedSections(original_data, normalized_data) ==
    {f \in target_keys : original_data[f].t # "absent" /\ normalized_data[f].t # "absent"}

\* lines 387-388 call .keys() on both values: a value that is not a dict has
\* none, and the call raises AttributeError
CompareRaisesOn(original_data, normalized_data) ==
    \E f \in ComparedSections(original_data, normalized_data) :
        original_data[f].t # "dict" \/ normalized_data[f].t # "dict"

\* lines 385-405, when nothing raises
compare_before_after(original_data, normalized_data) ==
    [f \in target_keys |->
        IF f \in ComparedSections(original_data, normalized_data)
        THEN key_mappings(original_data[f].d, normalized_data[f].d)
        ELSE << >>]

(***************************************************************************)
(* analyze_dm_schema_v1_dictionary_structure                               *)
(***************************************************************************)
\* lines 337-352: what is collected for one section
section_info(nested_dict) ==
    LET keys == DictKeys(nested_dict)
        bases == {BaseKey(keys[k]) : k \in 1..Len(keys)}
    IN  [total_keys |-> Len(nested_dict),
         keys_with_number |-> SelectSeq(keys, HasNumberSuffix),
         keys_without_number |-> SelectSeq(keys, LAMBDA key : ~HasNumberSuffix(key)),
         base_key_counts |->
             [b \in bases |-> Cardinality({k \in 1..Len(keys) : BaseKey(keys[k]) = b})]]

\* a mutant of lines 355-357: the counts of the bases are not looked at
NeedsNormalizationByKeysOnly(info) == Len(info.keys_without_number) > 0

\* lines 355-357: a key without a number, or a base counted more than once
NeedsNormalization(info) ==
    \/ Len(info.keys_without_number) > 0
    \/ \E b \in DOMAIN info.base_key_counts : info.base_key_counts[b] > 1

\* line 336: the sections the analysis looks at
AnalyzedSections(data) == {main_key \in target_keys : IsMappingSection(data, main_key)}

\* lines 332-369
analyze_dictionary_structure(data) ==
    LET target_sections ==
            [main_key \in AnalyzedSections(data) |-> section_info(data[main_key].d)]
        needs_normalization ==
            [main_key \in AnalyzedSections(data) |->
                NeedsNormalization(target_sections[main_key])]
        total_sections == Cardinality(DOMAIN target_sections)
        sections_needing_norm ==
            Cardinality({main_key \in DOMAIN needs_normalization :
                            needs_normalization[main_key]})
    IN  [target_sections |-> target_sections,
         needs_normalization |-> needs_normalization,
         summary |-> [total_target_sections |-> total_sections,
                      sections_needing_normalization |-> sections_needing_norm,
                      normalization_required |-> sections_needing_norm > 0]]

\* a record with no field
EmptyRecord == [f \in Fields |-> Absent]

(***************************************************************************)
(* The records the renumbering is applied to.                              *)
(***************************************************************************)
\* keys without a suffix, with a suffix (a_10: several digits), with a base
\* that itself ends in _<digits> (a_1_1, a_1_2), and keys whose end only
\* resembles a suffix (a_, a1, _1)
KeyPool ==
    {<<"a">>, <<"a", "_", "1">>, <<"a", "_", "3">>, <<"a", "_", "1", "0">>,
     <<"a", "_", "1", "_", "1">>, <<"a", "_", "1", "_", "2">>,
     <<"b">>, <<"b", "_", "1">>,
     <<"a", "_">>, <<"a", "1">>, <<"_", "1">>}

\* a dict never holds a key twice; the value of the k-th item is k
InputDicts ==
    LET KeySeqs == UNION {[1..n -> KeyPool] : n \in 0..MaxKeys}
    IN  {[k \in 1..Len(ks) |-> <<ks[k], k>>] :
            ks \in {s \in KeySeqs : \A i, j \in 1..Len(s) : i # j => s[i] # s[j]}}

\* a value that is not a dict: a list of pairs
ListValue == [t |-> "other", d |-> << <<<<"a">>, 7>>, <<<<"a", "_", "5">>, 8>> >>]

\* a small mapping whose keys need renumbering
SmallDict == [t |-> "dict", d |-> << <<<<"b", "_", "2">>, 9>> >>]

\* the mapping of a field that is not one of the five sections
MetaValue == [t |-> "dict", d |-> << <<<<"a">>, 5>>, <<<<"a", "_", "7">>, 6>> >>]

\* what the sections hold that are not the one under test: with and without
\* a value that is not a dict
FillerWithList ==
    [extra |-> ListValue, relations |-> Absent, annotations |-> SmallDict,
     annotationsData |-> ListValue, annotationGroups |-> Absent]

FillerOfDicts ==
    [extra |-> SmallDict, relations |-> Absent, annotations |-> SmallDict,
     annotationsData |-> Absent, annotationGroups |-> Absent]

Filler(slot) ==
    IF slot \in {"relations", "annotationGroups"} THEN FillerWithList ELSE FillerOfDicts

\* one of the five sections holds the dict under test
InputRecords ==
    {[f \in Fields |->
        IF f = slot THEN [t |-> "dict", d |-> dct]
        ELSE IF f \in target_keys THEN Filler(slot)[f]
        ELSE MetaValue] :
      slot \in target_keys, dct \in InputDicts}

(***************************************************************************)
(* URLs and file names.  A URL is held as the components urlparse gives;   *)
(* only its path is used (lines 77, 87).                                   *)
(***************************************************************************)
\* urlparse(url).path
UrlPath(url) == url.path

\* positions of character c in s
Positions(s, c) == {k \in 1..Len(s) : s[k] = c}

Last(S) == CHOOSE k \in S : \A j \in S : j <= k

\* os.path.basename(path): what follows the last slash
Basename(path) ==
    IF Positions(path, "/") = {} THEN path
    ELSE SubSeq(path, Last(Positions(path, "/")) + 1, Len(path))

\* os.path.splitext(name) of a name without slash: the extension starts at
\* the last dot, unless only dots come before it
SplitextAt(name) ==
    LET dots == Positions(name, ".")
    IN  IF dots # {} /\ \E j \in 1..(Last(dots) - 1) : name[j] # "."
        THEN Last(dots)
        ELSE Len(name) + 1

Stem(name) == SubSeq(name, 1, SplitextAt(name) - 1)

Extension(name) == SubSeq(name, SplitextAt(name), Len(name))

DefaultPrimaryName == <<"p", "r", "i", "m", "a", "r", "y", "_", "f", "i", "l", "e">>

DefaultExtension == <<".", "t", "x", "t">>

\* lines 77, 134, 184: basename of the URL path, or 'primary_file'
primary_filename(primary_file_url) ==
    IF Basename(UrlPath(primary_file_url)) = << >> THEN DefaultPrimaryName
    ELSE Basename(UrlPath(primary_file_url))

\* lines 78, 135, 185
base_name(primary_file_url) == Stem(primary_filename(primary_file_url))

\* lines 79, 136, 186: the file under <temp>/images/
primary_file_path(primary_file_url) ==
    [dir |-> "images", name |-> primary_filename(primary_file_url)]

\* lines 87, 144, 194: extension of the data URL's basename, or '.txt'
data_extension(data_file_url) ==
    IF Extension(Basename(UrlPath(data_file_url))) = << >> THEN DefaultExtension
    ELSE Extension(Basename(UrlPath(data_file_url)))

\* lines 88-89, 145-146, 195-196: the file under <temp>/labels/
data_file_path(primary_file_url, data_file_url) ==
    [dir |-> "labels",
     name |-> base_name(primary_file_url) \o data_extension(data_file_url)]

(***************************************************************************)
(* The class-name parameter of the yolo branch.                            *)
(***************************************************************************)
\* s.split(','): the pieces between the commas, at least one piece
RECURSIVE SplitComma(_)
SplitComma(s) ==
    IF Positions(s, ",") = {} THEN <<s>>
    ELSE LET p == Last(Positions(s, ","))
         IN  Append(SplitComma(SubSeq(s, 1, p - 1)), SubSeq(s, p + 1, Len(s)))

\* s.replace(' ', '')
RemoveSpaces(s) == SelectSeq(s, LAMBDA c : c # " ")

\* line 49: yolo_class_names.replace(' ', '').split(',')
parse_class_names(yolo_class_names) == SplitComma(RemoveSpaces(yolo_class_names))

(***************************************************************************)
(* Requests.                                                               *)
(***************************************************************************)
FileSchemas == {"yolo", "coco", "pascal"}

SupportedSchemas == FileSchemas \cup {"dm_schema_ver_1", "dm_schema_ver_2"}

\* two URLs with the same path, hence the same file name; one without a name
PrimaryUrls ==
    {[path |-> <<"/", "d", "/", "a", ".", "j", "p", "g">>, query |-> << >>],
     [path |-> <<"/", "e", "/", "a", ".", "j", "p", "g">>, query |-> <<"v", "=", "1">>],
     [path |-> <<"/", "d", "/">>, query |-> << >>]}

\* with and without an extension
DataUrls ==
    {[path |-> <<"/", "l", "/", "x", ".", "j", "s", "o", "n">>, query |-> << >>],
     [path |-> <<"/", "l", "/", "x">>, query |-> << >>]}

\* " cat, dog " and "a b,c"
ClassNameParams ==
    {<<" ", "c", "a", "t", ",", " ", "d", "o", "g", " ">>,
     <<"a", " ", "b", ",", "c">>}

AnyPrimaryUrl == CHOOSE u \in PrimaryUrls : u.query = << >> /\ Len(u.path) > 3

AnyDataUrl == CHOOSE u \in DataUrls : Extension(u.path) # << >>

NoRequest ==
    [schema |-> "", primary_file_url |-> AnyPrimaryUrl, data_file_url |-> AnyDataUrl,
     yolo_class_names |-> << >>]

Requests ==
    {[schema |-> "yolo", primary_file_url |-> p, data_file_url |-> d, yolo_class_names |-> c] :
        p \in PrimaryUrls, d \in DataUrls, c \in ClassNameParams}
    \cup
    {[schema |-> sch, primary_file_url |-> p, data_file_url |-> d, yolo_class_names |-> << >>] :
        sch \in {"coco", "pascal"}, p \in PrimaryUrls, d \in DataUrls}
    \cup
    {[schema |-> sch, primary_file_url |-> AnyPrimaryUrl, data_file_url |-> AnyDataUrl,
      yolo_class_names |-> << >>] :
        sch \in {"dm_schema_ver_1", "dm_schema_ver_2", "bogus"}}

(***************************************************************************)
(* The state.                                                              *)
(***************************************************************************)
\* the invocations of convert_data_from_file / convert_data_from_inference
\* that may run at the same time (one per task of the host's worker pool)
Invocations == {1, 2}

VARIABLES
    pc,          \* where each invocation is
    req,         \* its arguments and the parameters of its run context
    err,         \* the exception it raised ("" when none)
    files,       \* the files under <project>/temp: path -> who wrote the content
    dirs,        \* the directories that exist under <project>
    fetched,     \* requests.get calls the invocation has made
    fsops,       \* changes the invocation has made to the workspace
    staged,      \* whether the invocation has written its primary file
    class_names, \* the list parsed from yolo_class_names
    body,        \* what the data URL returned: kind and (for JSON) the document
    seen,        \* what the decoder was given when it was invoked
    cleanup,     \* "" before the cleanup, then "done" or "failed"
    normcall,    \* how the DM v2 -> v1 converter was called
    converted,   \* the value the invocation returned
    trace,       \* the outside calls the invocation has made, in order
    nstage,      \* "input", "normalized", "renormalized", "compared", "compare_raised"
    heap,        \* the record objects
    data,        \* reference to the caller's record
    snapshot,    \* the caller's record as it was when renumbering was called
    normalized,  \* reference to the result of the renumbering (0: none)
    renormalized,\* reference to the result of renumbering the result (0: none)
    comparison,  \* result of compare_normalized_dm_schema_v1_before_after
    analysis     \* results of analyze_dm_schema_v1_dictionary_structure

pvars == <<pc, req, err, files, dirs, fetched, fsops, staged, class_names, body, seen,
           cleanup, normcall, converted, trace>>

nvars == <<nstage, heap, data, snapshot, normalized, renormalized, comparison, analysis>>

NoComparison == [f \in target_keys |-> << >>]

NoAnalysis ==
    [called |-> FALSE,
     original |-> analyze_dictionary_structure(EmptyRecord),
     normalized |-> analyze_dictionary_structure(EmptyRecord)]

NormInit ==
    /\ nstage = "input"
    /\ \E r \in InputRecords : heap = <<r>> /\ snapshot = r
    /\ data = 1
    /\ normalized = 0
    /\ renormalized = 0
    /\ comparison = NoComparison
    /\ analysis = NoAnalysis

\* converted = self._normalize_dm_schema_v1_nested_dictionary_keys(data)
Renumber ==
    /\ nstage = "input"
    /\ LET r == normalize_nested_dictionary_keys(heap, data)
       IN  /\ heap' = r.heap
           /\ normalized' = r.ref
    /\ nstage' = "normalized"
    /\ UNCHANGED <<data, snapshot, renormalized, comparison>>
    /\ UNCHANGED analysis
    /\ UNCHANGED pvars

\* the renumbering applied to its own result
RenumberAgain ==
    /\ nstage = "normalized"
    /\ LET r == normalize_nested_dictionary_keys(heap, normalized)
       IN  /\ heap' = r.heap
           /\ renormalized' = r.ref
    /\ nstage' = "renormalized"
    /\ UNCHANGED <<data, snapshot, normalized, comparison>>
    /\ UNCHANGED analysis
    /\ UNCHANGED pvars

\* self.compare_normalized_dm_schema_v1_before_after(data, converted)
Compare ==
    /\ nstage = "renormalized"
    /\ ~CompareRaisesOn(heap[data], heap[normalized])
    /\ comparison' = compare_before_after(heap[data], heap[normalized])
    /\ nstage' = "compared"
    /\ UNCHANGED <<heap, data, snapshot, normalized, renormalized>>
    /\ UNCHANGED analysis
    /\ UNCHANGED pvars

\* the same call when a compared section is not a dict: AttributeError
CompareRaises ==
    /\ nstage = "renormalized"
    /\ CompareRaisesOn(heap[data], heap[normalized])
    /\ nstage' = "compare_raised"
    /\ UNCHANGED <<heap, data, snapshot, normalized, renormalized, comparison>>
    /\ UNCHANGED analysis
    /\ UNCHANGED pvars

\* analysis = self.analyze_dm_schema_v1_dictionary_structure(...), of the
\* caller's record and of the renumbered one
Analyze ==
    /\ nstage \in {"compared", "compare_raised"}
    /\ ~analysis.called
    /\ analysis' = [called |-> TRUE,
                    original |-> analyze_dictionary_structure(heap[data]),
                    normalized |-> analyze_dictionary_structure(heap[normalized])]
    /\ UNCHANGED <<nstage, heap, data, snapshot, normalized, renormalized, comparison>>
    /\ UNCHANGED pvars

NormNext == Renumber \/ RenumberAgain \/ Compare \/ CompareRaises \/ Analyze

(***************************************************************************)
(* The conversion of one file pair: convert_data_from_file and the five    *)
(* branches, one action per step between two points where another          *)
(* invocation can act on the workspace.                                    *)
(***************************************************************************)
\* DM schema v1 documents a data URL may serve
SampleBodies ==
    {[f \in Fields |->
        IF f = "annotations"
        THEN [t |-> "dict", d |-> << <<<<"a">>, 1>>, <<<<"b">>, 2>>, <<<<"a", "_", "3">>, 3>> >>]
        ELSE IF f \in target_keys THEN FillerWithList[f]
        ELSE MetaValue],
     [f \in Fields |->
        IF f = "extra" THEN [t |-> "dict", d |-> << <<<<"a">>, 1>>, <<<<"a", "_", "1">>, 2>> >>]
        ELSE Absent]}

NoBody == [kind |-> "", json |-> EmptyRecord]

NotSeen ==
    [invoked |-> FALSE, primary_by |-> 0, primary_on_disk |-> FALSE,
     data_on_disk |-> FALSE, class_names |-> << >>]

NoCall == [made |-> FALSE, ctor |-> << >>, convert |-> << >>]

NoResult == [kind |-> "none", record |-> EmptyRecord]

PipeInit ==
    /\ pc = [i \in Invocations |-> "idle"]
    /\ req = [i \in Invocations |-> NoRequest]
    /\ err = [i \in Invocations |-> ""]
    /\ files = << >>
    /\ dirs = {}
    /\ fetched = [i \in Invocations |-> 0]
    /\ fsops = [i \in Invocations |-> 0]
    /\ staged = [i \in Invocations |-> FALSE]
    /\ class_names = [i \in Invocations |-> << >>]
    /\ body = [i \in Invocations |-> NoBody]
    /\ seen = [i \in Invocations |-> NotSeen]
    /\ cleanup = [i \in Invocations |-> ""]
    /\ normcall = [i \in Invocations |-> NoCall]
    /\ converted = [i \in Invocations |-> NoResult]
    /\ trace = [i \in Invocations |-> << >>]

\* the invocation makes the outside calls events, in that order
Does(i, events) == trace' = [trace EXCEPT ![i] = @ \o events]

\* a mutant of raise_for_status: a non-success response is not noticed
StatusNeverRaises(response) == FALSE

\* response.raise_for_status(): lines 82, 92, 139, 149, 189, 199, 226, 237
StatusRaises(response) == response = "failed"

\* requests.get(url) answered response
Get(response) == IF response = "failed" THEN "get:failed" ELSE "get:ok"

\* the invocation raises exc and ends
Raise(i, exc) ==
    /\ pc' = [pc EXCEPT ![i] = "raised"]
    /\ err' = [err EXCEPT ![i] = exc]

Goto(i, label) ==
    /\ pc' = [pc EXCEPT ![i] = label]
    /\ err' = err

\* the files with path removed / written
Without(fs, paths) == [q \in (DOMAIN fs) \ paths |-> fs[q]]

WithFile(fs, path, content) ==
    [q \in (DOMAIN fs) \cup {path} |-> IF q = path THEN content ELSE fs[q]]

\* the host calls convert_data_from_file with request r
Call(i) ==
    /\ pc[i] = "idle"
    /\ \E r \in Requests : req' = [req EXCEPT ![i] = r]
    /\ Goto(i, "dispatch")
    /\ UNCHANGED <<staged, files, dirs, fetched, fsops, class_names, body, seen, cleanup,
                   normcall, converted>>
    /\ UNCHANGED trace
    /\ UNCHANGED nvars

\* the host calls convert_data_from_inference(data)
CallInference(i) ==
    /\ pc[i] = "idle"
    /\ req' = [req EXCEPT ![i] = [NoRequest EXCEPT !.schema = "inference"]]
    /\ Goto(i, "normalize")
    /\ UNCHANGED <<staged, files, dirs, fetched, fsops, class_names, body, seen, cleanup,
                   normcall, converted>>
    /\ UNCHANGED trace
    /\ UNCHANGED nvars

\* a mutant of lines 47-62: an unknown schema is treated as dm_schema_ver_2
BranchOfDefaultV2(schema_to_convert) ==
    IF schema_to_convert \in SupportedSchemas THEN schema_to_convert
    ELSE "dm_schema_ver_2"

\* lines 47-62: the if/elif chain on schema_to_convert
BranchOf(schema_to_convert) ==
    IF schema_to_convert \in SupportedSchemas THEN schema_to_convert
    ELSE "unsupported"

\* lines 42-62: read the schema, compute the temp path, branch
Dispatch(i) ==
    /\ pc[i] = "dispatch"
    /\ LET branch == BranchOf(req[i].schema)
       IN  /\ IF branch = "unsupported"
              THEN Raise(i, "ValueError: Unsupported schema_to_convert")
              ELSE IF branch \in FileSchemas THEN Goto(i, "makedirs")
              ELSE Goto(i, "fetch_json")
           /\ class_names' =
                 [class_names EXCEPT ![i] =
                     IF branch = "yolo" THEN parse_class_names(req[i].yolo_class_names)
                     ELSE << >>]
    /\ UNCHANGED <<staged, req, files, dirs, fetched, fsops, body, seen, cleanup, normcall,
                   converted>>
    /\ UNCHANGED trace
    /\ UNCHANGED nvars

WorkspaceDirs == {"temp", "temp/images", "temp/labels"}

\* lines 72-74, 129-131, 179-181: os.makedirs(..., exist_ok=True), three times
MakeDirs(i) ==
    /\ pc[i] = "makedirs"
    /\ dirs' = dirs \cup WorkspaceDirs
    /\ fsops' = [fsops EXCEPT ![i] = IF dirs' # dirs THEN @ + 1 ELSE @]
    /\ Goto(i, "fetch_primary")
    /\ UNCHANGED <<staged, req, files, fetched, class_names, body, seen, cleanup, normcall,
                   converted>>
    /\ UNCHANGED trace
    /\ UNCHANGED nvars

\* lines 77-84, 134-141, 184-191: get the primary file and write it under
\* images/; raise_for_status raises HTTPError on a non-success response
StagePrimary(i) ==
    /\ pc[i] = "fetch_primary"
    /\ fetched' = [fetched EXCEPT ![i] = @ + 1]
    /\ \E response \in {"failed", "ok"} :
        IF StatusRaises(response)
        THEN /\ Raise(i, "HTTPError")
             /\ Does(i, <<Get(response)>>)
             /\ UNCHANGED <<files, fsops, staged>>
        ELSE /\ files' = WithFile(files, primary_file_path(req[i].primary_file_url), i)
             /\ fsops' = [fsops EXCEPT ![i] = @ + 1]
             /\ staged' = [staged EXCEPT ![i] = TRUE]
             /\ Does(i, <<Get(response), "write">>)
             /\ Goto(i, "fetch_data")
    /\ UNCHANGED <<req, dirs, class_names, body, seen, cleanup, normcall, converted>>
    /\ UNCHANGED nvars

\* what reading the body of the data response raises when the body is not
\* of the expected kind: response.json() (line 150), .decode('utf-8')
\* (lines 93, 200)
BodyError(schema) == IF schema = "coco" THEN "JSONDecodeError" ELSE "UnicodeDecodeError"

\* lines 87-93, 144-150, 194-200: get the data file and read its body;
\* nothing is written under labels/
FetchData(i) ==
    /\ pc[i] = "fetch_data"
    /\ fetched' = [fetched EXCEPT ![i] = @ + 1]
    /\ \E response \in {"failed", "malformed", "ok"} :
        /\ body' = [body EXCEPT ![i] =
                      IF response = "failed" THEN NoBody
                      ELSE [kind |-> response, json |-> EmptyRecord]]
        /\ Does(i, <<Get(response)>>)
        /\ IF StatusRaises(response) THEN Raise(i, "HTTPError")
           ELSE IF response = "malformed" THEN Raise(i, BodyError(req[i].schema))
           ELSE Goto(i, "decode")
    /\ UNCHANGED <<staged, req, files, dirs, fsops, class_names, seen, cleanup, normcall,
                   converted>>
    /\ UNCHANGED nvars

\* a mutant of lines 99-109: the temp files are not deleted
DecoderReturnedToConverter(i) == Goto(i, "normalize")

\* lines 97-100, 154-157, 204-207: the with block ends and the try
\* statement that deletes the temp files begins
DecoderReturned(i) == Goto(i, "cleanup")

\* lines 95-97, 152-154, 202-204: open the staged primary file and call the
\* decoder's convert_single_file, which returns or raises
Decode(i) ==
    /\ pc[i] = "decode"
    /\ LET path == primary_file_path(req[i].primary_file_url)
           dpath == data_file_path(req[i].primary_file_url, req[i].data_file_url)
       IN  IF path \notin DOMAIN files
           THEN /\ Raise(i, "FileNotFoundError")
                /\ seen' = seen
                /\ trace' = trace
           ELSE /\ seen' = [seen EXCEPT ![i] =
                              [invoked |-> TRUE,
                               primary_by |-> files[path],
                               primary_on_disk |-> TRUE,
                               data_on_disk |-> dpath \in DOMAIN files,
                               class_names |-> class_names[i]]]
                /\ Does(i, <<"decode">>)
                /\ \E returns \in BOOLEAN :
                      IF returns THEN DecoderReturned(i) ELSE Raise(i, "DecoderError")
    /\ UNCHANGED <<staged, req, files, dirs, fetched, fsops, class_names, body, cleanup,
                   normcall, converted>>
    /\ UNCHANGED nvars

\* os.listdir(temp_path) is empty
TempIsEmpty(ds, fs) == ds \cap {"temp/images", "temp/labels"} = {}

\* a mutant of lines 108-109: the OSError of a removal leaves the invocation
AfterCleanupRaising(i, failure) ==
    IF failure = "none" THEN Goto(i, "normalize") ELSE Raise(i, "OSError")

\* lines 108-109, 165-166, 215-216: except OSError: pass, then the code
\* after the try statement runs
AfterCleanup(i, failure) == Goto(i, "normalize")

\* lines 100-109, 157-166, 207-216: remove the two files if they exist and
\* the temp directory if it is empty; an OSError of a removal ends the
\* cleanup and is ignored
Cleanup(i) ==
    /\ pc[i] = "cleanup"
    /\ LET path == primary_file_path(req[i].primary_file_url)
           dpath == data_file_path(req[i].primary_file_url, req[i].data_file_url)
       IN  \E failure \in {"none", "primary", "data"} :
            /\ failure = "primary" => path \in DOMAIN files
            /\ failure = "data" => dpath \in DOMAIN files
            /\ files' = IF failure = "primary" THEN files
                        ELSE IF failure = "data" THEN Without(files, {path})
                        ELSE Without(files, {path, dpath})
            /\ dirs' = IF failure = "none" /\ "temp" \in dirs /\ TempIsEmpty(dirs, files')
                       THEN dirs \ {"temp"} ELSE dirs
            /\ cleanup' = [cleanup EXCEPT ![i] = IF failure = "none" THEN "done" ELSE "failed"]
            /\ fsops' = [fsops EXCEPT ![i] = IF files' # files \/ dirs' # dirs THEN @ + 1 ELSE @]
            /\ AfterCleanup(i, failure)
    /\ Does(i, <<"cleanup">>)
    /\ UNCHANGED <<staged, req, fetched, class_names, body, seen, normcall, converted>>
    /\ UNCHANGED nvars

\* how each call site builds and calls DMV2ToV1Converter: lines 112-113
\* (yolo), 169-170, 219-220, 241-242, 256-257
ConverterCall(schema) ==
    IF schema = "yolo"
    THEN [made |-> TRUE, ctor |-> << >>, convert |-> <<"dm_json">>]
    ELSE [made |-> TRUE, ctor |-> <<"dm_json", "image">>, convert |-> << >>]

\* the DM v2 -> v1 conversion that ends the yolo, coco, pascal and
\* dm_schema_ver_2 branches and convert_data_from_inference; the converter
\* returns or raises
Normalize(i) ==
    /\ pc[i] = "normalize"
    /\ normcall' = [normcall EXCEPT ![i] = ConverterCall(req[i].schema)]
    /\ Does(i, <<"normalize">>)
    /\ \E returns \in BOOLEAN :
        IF returns
        THEN /\ converted' = [converted EXCEPT ![i] =
                                 [kind |-> "converter_output", record |-> EmptyRecord]]
             /\ Goto(i, "returned")
        ELSE /\ Raise(i, "ConverterError")
             /\ converted' = converted
    /\ UNCHANGED <<staged, req, files, dirs, fetched, fsops, class_names, body, seen, cleanup>>
    /\ UNCHANGED nvars

\* lines 225-226, 236-237: get the data URL
FetchJson(i) ==
    /\ pc[i] = "fetch_json"
    /\ fetched' = [fetched EXCEPT ![i] = @ + 1]
    /\ \E response \in {"failed", "malformed", "ok"} :
        /\ IF response = "failed"
           THEN body' = body
           ELSE IF req[i].schema = "dm_schema_ver_1" /\ response = "ok"
           THEN \E doc \in SampleBodies :
                   body' = [body EXCEPT ![i] = [kind |-> "ok", json |-> doc]]
           ELSE body' = [body EXCEPT ![i] = [kind |-> response, json |-> EmptyRecord]]
        /\ Does(i, <<Get(response)>>)
        /\ IF StatusRaises(response) THEN Raise(i, "HTTPError")
           ELSE Goto(i, "parse_json")
    /\ UNCHANGED <<staged, req, files, dirs, fsops, class_names, seen, cleanup, normcall,
                   converted>>
    /\ UNCHANGED nvars

\* lines 227-232 (dm_schema_ver_1): parse and renumber, a ValueError is
\* raised again with a message; line 238 (dm_schema_ver_2): parse
ParseJson(i) ==
    /\ pc[i] = "parse_json"
    /\ IF req[i].schema = "dm_schema_ver_1"
       THEN IF body[i].kind = "malformed"
            THEN /\ Raise(i, "ValueError: Failed to parse JSON response")
                 /\ converted' = converted
            ELSE /\ LET r == normalize_nested_dictionary_keys(<<body[i].json>>, 1)
                    IN  converted' = [converted EXCEPT ![i] =
                                         [kind |-> "renumbered", record |-> r.heap[r.ref]]]
                 /\ Goto(i, "returned")
       ELSE /\ IF body[i].kind = "malformed"
               THEN Raise(i, "JSONDecodeError")
               ELSE Goto(i, "normalize")
            /\ converted' = converted
    /\ UNCHANGED <<staged, req, files, dirs, fetched, fsops, class_names, body, seen, cleanup,
                   normcall>>
    /\ UNCHANGED trace
    /\ UNCHANGED nvars

Next ==
    \E i \in Invocations :
    \/ Call(i)
    \/ CallInference(i)
    \/ Dispatch(i)
    \/ MakeDirs(i)
    \/ StagePrimary(i)
    \/ FetchData(i)
    \/ Decode(i)
    \/ Cleanup(i)
    \/ Normalize(i)
    \/ FetchJson(i)
    \/ ParseJson(i)

\* the renumbering harness is not running
NormIdle ==
    /\ nstage = "idle"
    /\ heap = << >>
    /\ data = 0
    /\ snapshot = EmptyRecord
    /\ normalized = 0
    /\ renormalized = 0
    /\ comparison = NoComparison
    /\ analysis = NoAnalysis

vars == <<pc, req, err, files, dirs, fetched, fsops, staged, class_names, body, seen,
          cleanup, normcall, converted, trace,
          nstage, heap, data, snapshot, normalized, renormalized, comparison, analysis>>

Init == PipeInit /\ NormIdle

\* concurrent invocations of the conversion on one workspace
Spec == Init /\ [][Next]_vars

InitNorm == NormInit /\ PipeInit

\* the renumbering, its repetition and the comparison, applied to a record
SpecNorm == InitNorm /\ [][NormNext]_vars


(***************************************************************************)
(* Properties of the renumbering.                                          *)
(***************************************************************************)
\* the number of digit characters a key ends with
RECURSIVE TrailingDigits(_)
TrailingDigits(key) ==
    IF key = << >> \/ key[Len(key)] \notin Digits THEN 0
    ELSE 1 + TrailingDigits(SubSeq(key, 1, Len(key) - 1))

\* the key without its trailing _<digits> suffix, if it has one
StrippedBase(key) ==
    LET n == TrailingDigits(key)
    IN  IF n >= 1 /\ Len(key) > n /\ key[Len(key) - n] = "_"
        THEN SubSeq(key, 1, Len(key) - n - 1)
        ELSE key

\* how many of the first k keys of section d have the base of the k-th key
RankInGroup(d, k) ==
    Cardinality({j \in 1..k : StrippedBase(d[j][1]) = StrippedBase(d[k][1])})

\* the key the k-th item of section d is to get: <base>_<rank in its group>
DenseKey(d, k) == StrippedBase(d[k][1]) \o <<"_">> \o ToStr(RankInGroup(d, k))

Renumbered == nstage # "input"

MappingSections == {f \in target_keys : snapshot[f].t = "dict"}

\* C4: in every section that is a mapping, the keys of the renumbered section
\* are exactly the keys <base>_<i>, where the i-th key (in input order) with
\* base <base> gets i, so each base is numbered 1..n without a gap, and the
\* item under <base>_<i> is the item of that i-th key.
C4_DenseNumbering ==
    Renumbered =>
        \A f \in MappingSections :
            LET in == snapshot[f].d
                out == heap[normalized][f].d
            IN  /\ heap[normalized][f].t = "dict"
                /\ KeySet(out) = {DenseKey(in, k) : k \in 1..Len(in)}
                /\ \A k \in 1..Len(in) : DictGet(out, DenseKey(in, k)) = in[k][2]

\* a section with a gap (a_3 without a_1 and a_2), keys without suffix and
\* a second base has been renumbered
C4_Witness ==
    /\ nstage = "normalized"
    /\ \E f \in MappingSections :
        /\ DictKeys(snapshot[f].d) = << <<"a", "_", "3">>, <<"a">>, <<"b">> >>
        /\ DictKeys(heap[normalized][f].d) =
              << <<"a", "_", "1">>, <<"a", "_", "2">>, <<"b", "_", "1">> >>

\* C5: the renumbered section has as many keys as the original, the key at
\* position k is the renamed key of position k of the original (same base,
\* same value), and the positional diff pairs each original key with it.
C5_OrderKept ==
    /\ Renumbered =>
        \A f \in MappingSections :
            LET in == snapshot[f].d
                out == heap[normalized][f].d
            IN  /\ Len(out) = Len(in)
                /\ \A k \in 1..Len(in) :
                      /\ out[k][1] = DenseKey(in, k)
                      /\ out[k][2] = in[k][2]
    /\ nstage = "compared" =>
        \A f \in MappingSections :
            /\ Len(comparison[f]) = Len(snapshot[f].d)
            /\ \A k \in 1..Len(comparison[f]) :
                  /\ comparison[f][k].original = snapshot[f].d[k][1]
                  /\ comparison[f][k].normalized = DenseKey(snapshot[f].d, k)

\* C6: renumbering the result of the renumbering gives the same record:
\* the same keys with the same values in the same order in every section.
C6_Idempotent ==
    nstage \in {"renormalized", "compared", "compare_raised"} =>
        /\ renormalized # 0
        /\ heap[renormalized] = heap[normalized]

\* a record with a key whose base ends in _<digits>, changed by the first
\* pass, has gone through the second pass
C6_Witness ==
    /\ nstage = "renormalized"
    /\ heap[normalized] # snapshot
    /\ \E f \in MappingSections :
          DictKeys(snapshot[f].d) = << <<"a", "_", "1", "_", "2">>, <<"a">>, <<"a", "_", "1">> >>

\* C10: the caller's record is as it was, the result is another object,
\* every field that is not one of the five sections is equal in both, and so
\* is every section that is absent or not a mapping.
C10_Frame ==
    Renumbered =>
        /\ heap[data] = snapshot
        /\ normalized # data
        /\ \A f \in OtherFields : heap[normalized][f] = snapshot[f]
        /\ \A f \in target_keys \ MappingSections : heap[normalized][f] = snapshot[f]

\* the renumbering has changed a section of a record that also has an absent
\* section, a section that is not a mapping and a mapping outside the five
C10_Witness ==
    /\ nstage = "normalized"
    /\ heap[normalized] # snapshot
    /\ \E f \in target_keys : snapshot[f].t = "absent"
    /\ \E f \in target_keys : snapshot[f].t = "other"
    /\ \E f \in OtherFields : snapshot[f].t = "dict"

(***************************************************************************)
(* Properties of the conversion.                                           *)
(***************************************************************************)
Ended(i) == pc[i] \in {"returned", "raised"}

FileBased(i) == req[i].schema \in FileSchemas

\* the primary file this invocation wrote is in the workspace
OwnPrimaryOnDisk(i) ==
    LET path == primary_file_path(req[i].primary_file_url)
    IN  path \in DOMAIN files /\ files[path] = i

\* a file is at the path of this invocation's annotation file
DataOnDisk(i) ==
    data_file_path(req[i].primary_file_url, req[i].data_file_url) \in DOMAIN files

\* C1: when a file-based invocation that wrote its primary file has returned,
\* or has raised the decoder's or the converter's exception, and no removal
\* failed, its staged primary file and its annotation file are gone.
C1_StagedFilesReleased ==
    \A i \in Invocations :
        (/\ FileBased(i)
         /\ Ended(i)
         /\ staged[i]
         /\ err[i] \in {"", "DecoderError", "ConverterError"}
         /\ cleanup[i] # "failed")
        => ~OwnPrimaryOnDisk(i) /\ ~DataOnDisk(i)

\* C2: when a fetch of a file-based invocation gets a non-success response,
\* the invocation raises and no file it staged is left in the workspace.
C2_FetchFailureLeavesNothing ==
    \A i \in Invocations :
        (FileBased(i) /\ fetched[i] > 0 /\ err[i] = "HTTPError")
        => pc[i] = "raised" /\ ~OwnPrimaryOnDisk(i) /\ ~DataOnDisk(i)

\* C3: the primary file an invocation has staged stays in place, with the
\* content this invocation wrote, until its decoder has been called, and the
\* file the decoder is given is the one this invocation wrote.
C3_StagedPairOwned ==
    \A i \in Invocations :
        /\ (staged[i] /\ pc[i] \in {"fetch_data", "decode"}) => OwnPrimaryOnDisk(i)
        /\ seen[i].invoked => seen[i].primary_by = i

\* C7: an invocation of convert_data_from_file whose schema is none of the
\* five raises the unsupported-schema error at the dispatch, with no fetch
\* made, no change to the workspace and no result.
C7_UnsupportedSchemaFailsFirst ==
    \A i \in Invocations :
        (pc[i] # "idle" /\ req[i].schema \notin SupportedSchemas \cup {"inference"})
        => /\ pc[i] \in {"dispatch", "raised"}
           /\ pc[i] = "raised" => err[i] = "ValueError: Unsupported schema_to_convert"
           /\ fetched[i] = 0
           /\ fsops[i] = 0
           /\ converted[i] = NoResult

\* an invocation with schema "bogus" has raised while the other invocation
\* has staged a file, which is still there
C7_Witness ==
    \E i, j \in Invocations :
        /\ i # j
        /\ req[i].schema = "bogus"
        /\ pc[i] = "raised"
        /\ pc[j] = "decode"
        /\ OwnPrimaryOnDisk(j)

\* C8: when the decoder is invoked, the primary file is at
\* images/<primary-filename> and the annotation file at labels/<base><ext>.
C8_BothArtifactsStaged ==
    \A i \in Invocations :
        seen[i].invoked => seen[i].primary_on_disk /\ seen[i].data_on_disk

\* s without its leading and trailing spaces
RECURSIVE Strip(_)
Strip(s) ==
    IF s = << >> THEN s
    ELSE IF s[1] = " " THEN Strip(SubSeq(s, 2, Len(s)))
    ELSE IF s[Len(s)] = " " THEN Strip(SubSeq(s, 1, Len(s) - 1))
    ELSE s

\* the entries between the commas, each stripped
TrimmedEntries(s) == LET parts == SplitComma(s) IN [k \in 1..Len(parts) |-> Strip(parts[k])]

\* C9: the class names the YOLO decoder is given are the entries of
\* yolo_class_names between the commas, each without its surrounding
\* whitespace and otherwise unchanged, in the same order.
C9_ClassNamesTrimmed ==
    \A i \in Invocations :
        (req[i].schema = "yolo" /\ seen[i].invoked)
        => seen[i].class_names = TrimmedEntries(req[i].yolo_class_names)


JsonSchemas == {"coco", "dm_schema_ver_1", "dm_schema_ver_2"}

\* C11: in the coco, dm_schema_ver_1 and dm_schema_ver_2 branches, when the
\* data response is a success whose body is not JSON, the invocation raises
\* the error that wraps the parse failure with a message, the same in all
\* three branches, and returns no result.
C11_ParseFailureWrapped ==
    \A i \in Invocations :
        (req[i].schema \in JsonSchemas /\ body[i].kind = "malformed" /\ Ended(i))
        => /\ pc[i] = "raised"
           /\ err[i] = "ValueError: Failed to parse JSON response"
           /\ converted[i] = NoResult


ConverterOutput == [kind |-> "converter_output", record |-> EmptyRecord]

\* C12: in a file-based branch, when a deletion fails during the cleanup
\* that follows a successful decode, the invocation goes on to the converter
\* and ends as the converter ends it: it returns the converter's output or
\* raises the converter's error, and the failure of the cleanup is never
\* the error of the invocation.
C12_CleanupFailureSilent ==
    \A i \in Invocations :
        cleanup[i] = "failed"
        => /\ FileBased(i) /\ seen[i].invoked
           /\ pc[i] \in {"normalize", "returned", "raised"}
           /\ pc[i] = "normalize" => err[i] = "" /\ converted[i] = NoResult
           /\ pc[i] = "returned" => err[i] = "" /\ converted[i] = ConverterOutput
           /\ pc[i] = "raised" => err[i] = "ConverterError" /\ converted[i] = NoResult

C12_Witness ==
    \E i \in Invocations :
        cleanup[i] = "failed" /\ pc[i] = "returned" /\ converted[i] = ConverterOutput

Events(i) == {trace[i][k] : k \in DOMAIN trace[i]}

\* the requests.get calls that succeeded before the k-th outside call
GetsBefore(i, k) == Cardinality({j \in 1..(k - 1) : trace[i][j] = "get:ok"})

\* the fetches of a branch
FetchesOf(schema) ==
    IF schema \in FileSchemas THEN 2
    ELSE IF schema = "inference" THEN 0
    ELSE 1

\* C13: a decoder or the DM v2 -> v1 converter is invoked only after every
\* fetch of the branch has succeeded; when a fetch of an invocation has
\* failed, neither is ever invoked in that invocation.
C13_CallsOnlyAfterFetches ==
    \A i \in Invocations :
        /\ "get:failed" \in Events(i)
           => /\ "decode" \notin Events(i) /\ "normalize" \notin Events(i)
              /\ ~seen[i].invoked /\ ~normcall[i].made
              /\ pc[i] = "raised" /\ err[i] = "HTTPError"
        /\ \A k \in DOMAIN trace[i] :
              trace[i][k] \in {"decode", "normalize"}
              => GetsBefore(i, k) = FetchesOf(req[i].schema)

C13_Witness ==
    \E i \in Invocations :
        /\ trace[i] = <<"get:ok", "write", "get:failed">>
        /\ pc[i] = "raised"
        /\ \E j \in Invocations : "decode" \in Events(j) /\ "normalize" \in Events(j)

\* C14 as stated: a file-based invocation that returned made its outside
\* calls in the order stage, decode, normalize, cleanup.
C14_CleanupAfterNormalize ==
    \A i \in Invocations :
        (FileBased(i) /\ pc[i] = "returned")
        => trace[i] = <<"get:ok", "write", "get:ok", "decode", "normalize", "cleanup">>

\* C14 as amended: a file-based invocation that returned made its outside
\* calls in the order stage, decode, cleanup, normalize, one at a time: the
\* deletion of the staged files is attempted after the decoder has returned
\* and before the DM v2 -> v1 converter is called.
C14_CleanupBeforeNormalize ==
    \A i \in Invocations :
        (FileBased(i) /\ pc[i] = "returned")
        => /\ trace[i] = <<"get:ok", "write", "get:ok", "decode", "cleanup", "normalize">>
           /\ cleanup[i] # ""

C14_Witness ==
    \E i \in Invocations :
        /\ FileBased(i) /\ pc[i] = "returned"
        /\ cleanup[i] = "done"
        /\ normcall[i].made

\* C15: every call of the DM v2 -> v1 converter (yolo, coco, pascal,
\* dm_schema_ver_2, convert_data_from_inference) gives it the intermediate
\* record and the media kind 'image' in the same way, and what the
\* converter returns is what the invocation returns.
C15_SameCallEverywhere ==
    \A i \in Invocations :
        /\ normcall[i].made
           => normcall[i] = [made |-> TRUE, ctor |-> <<"dm_json", "image">>, convert |-> << >>]
        /\ (normcall[i].made /\ pc[i] = "returned") => converted[i] = ConverterOutput


\* the keys of section d that have no trailing _<digits> suffix
Unsuffixed(d) ==
    {k \in 1..Len(d) : StrippedBase(d[k][1]) = d[k][1]}

\* two keys of section d have one base
SharesBase(d) ==
    \E j, k \in 1..Len(d) : j # k /\ StrippedBase(d[j][1]) = StrippedBase(d[k][1])

\* what C16 says of the analysis a of record r
FlagsAsStated(a, r) ==
    LET sections == {f \in target_keys : r[f].t = "dict"}
    IN  /\ DOMAIN a.needs_normalization = sections
        /\ \A f \in sections :
              /\ a.needs_normalization[f] <=> (Unsuffixed(r[f].d) # {} \/ SharesBase(r[f].d))
              /\ SharesBase(r[f].d) => a.needs_normalization[f]
        /\ a.summary.normalization_required
              <=> \E f \in sections : a.needs_normalization[f]

\* C16: the analysis flags a section that is a mapping exactly when the
\* section has a key without a trailing _<digits> suffix or a base that two
\* of its keys share, so a section with two keys of one base is always
\* flagged; normalization_required is true exactly when a section is flagged.
C16_FlagsSections ==
    analysis.called =>
        /\ FlagsAsStated(analysis.original, snapshot)
        /\ FlagsAsStated(analysis.normalized, heap[normalized])

\* a section whose keys all have a number and two of which share a base
\* has been analysed, next to one that is not flagged
C16_Witness ==
    /\ analysis.called
    /\ \E f, g \in MappingSections :
        /\ Unsuffixed(snapshot[f].d) = {} /\ SharesBase(snapshot[f].d)
        /\ analysis.original.needs_normalization[f]
        /\ ~analysis.original.needs_normalization[g]
    /\ analysis.original.summary.normalization_required

\* C17: renumbering loses no entry: the renumbered section has as many
\* entries as the input, its keys are pairwise different, and the value of
\* each input key is under exactly one output key, also when a base ends
\* in _<digits> itself (a_1_2 next to a and a_1).
C17_NoEntryLost ==
    Renumbered =>
        \A f \in MappingSections :
            LET in == snapshot[f].d
                out == heap[normalized][f].d
            IN  /\ Len(out) = Len(in)
                /\ \A j, k \in 1..Len(out) : j # k => out[j][1] # out[k][1]
                /\ \A k \in 1..Len(in) :
                      Cardinality({j \in 1..Len(out) : out[j][2] = in[k][2]}) = 1

C17_Witness ==
    /\ Renumbered
    /\ \E f \in MappingSections :
        /\ KeySet(snapshot[f].d) = {<<"a", "_", "1", "_", "2">>, <<"a">>, <<"a", "_", "1">>}
        /\ KeySet(heap[normalized][f].d) =
              {<<"a", "_", "1", "_", "1">>, <<"a", "_", "1">>, <<"a", "_", "2">>}

\* the renumbering left the keys of every section as they were
KeysUnchanged ==
    \A f \in MappingSections : DictKeys(heap[normalized][f].d) = DictKeys(snapshot[f].d)

\* C18: the analysis of a record reports normalization_required = false
\* exactly when the renumbering leaves the keys of every section unchanged,
\* and the analysis of a renumbered record reports false.
C18_AnalysisAgreesWithRenumbering ==
    analysis.called =>
        /\ ~analysis.original.summary.normalization_required <=> KeysUnchanged
        /\ ~analysis.normalized.summary.normalization_required

====
